---- MODULE Spec2Model ----
(***************************************************************************)
(* Customer list read model (src/domain/readModels/CustomerListReadModel.js)*)
(* together with the write path that feeds it: command handler, event      *)
(* store and event bus.  The read model is translated from its source; the *)
(* command handler, the event store, the bus and the persistence adapter   *)
(* are not part of the sources at hand and follow their documented         *)
(* contract.                                                               *)
(***************************************************************************)
EXTENDS Integers, Sequences, FiniteSets, TLC

\* ------------------------------------------------------------------ bounds
MaxCmds == 3
MaxStore == 3
MaxDivergedStore == 1
MaxLive == 1

\* ------------------------------------------------------------ value domains
Ids == {"c1", "c2"}
Names == {"n1", "n2"}
Emails == {"e1", "e2"}
Passwords == {"p1"}
ReadModels == {"rmA", "rmB"}

undefined == "undefined"

\* ------------------------------------------------- constants/events, collections
CUSTOMER_CREATED == "CUSTOMER_CREATED"
CUSTOMER_UPDATED == "CUSTOMER_UPDATED"
CUSTOMER_DEACTIVATED == "CUSTOMER_DEACTIVATED"
CUSTOMER_REACTIVATED == "CUSTOMER_REACTIVATED"
CUSTOMER_REGISTERED == "CUSTOMER_REGISTERED"
CUSTOMERS == "customers"

\* ------------------------------------------------------------------ errors
NoError == "none"
AlreadyExistsError == "Customer already exists"
NotFoundError == "Customer not found"
CreateTwiceError == "can not create same customer more than once"
AggregateNotFoundError == "customer does not exist"

\* ------------------------------------------------------------------ events
CustomerCreated(id, name, email, password) ==
  [__name |-> CUSTOMER_CREATED, customerId |-> id, name |-> name,
   email |-> email, password |-> password]

CustomerUpdated(id, name) ==
  [__name |-> CUSTOMER_UPDATED, customerId |-> id, name |-> name,
   email |-> undefined, password |-> undefined]

CustomerDeactivated(id) ==
  [__name |-> CUSTOMER_DEACTIVATED, customerId |-> id, name |-> undefined,
   email |-> undefined, password |-> undefined]

CustomerReactivated(id) ==
  [__name |-> CUSTOMER_REACTIVATED, customerId |-> id, name |-> undefined,
   email |-> undefined, password |-> undefined]

CustomerRegistered(id, name, email, password) ==
  [__name |-> CUSTOMER_REGISTERED, customerId |-> id, name |-> name,
   email |-> email, password |-> password]

NoEvent ==
  [__name |-> "none", customerId |-> undefined, name |-> undefined,
   email |-> undefined, password |-> undefined]

CreatedEvents ==
  {CustomerCreated(id, n, e, p) : id \in Ids, n \in Names, e \in Emails, p \in Passwords}

Events ==
  CreatedEvents
  \cup {CustomerUpdated(id, n) : id \in Ids, n \in Names}
  \cup {CustomerDeactivated(id) : id \in Ids}
  \cup {CustomerReactivated(id) : id \in Ids}
  \cup {CustomerRegistered(id, "n1", "e1", "p1") : id \in Ids}

\* ---------------------------------------------------- persistence adapter
\* get(collection, id) / insert(collection, id, record) / update(collection, id, record)
EmptyAdapter == [c \in {CUSTOMERS} |-> << >>]

AdapterHas(a, collection, id) == id \in DOMAIN a[collection]

AdapterGet(a, collection, id) == a[collection][id]

AdapterInsert(a, collection, id, record) ==
  [a EXCEPT ![collection] =
     [k \in (DOMAIN a[collection]) \cup {id} |->
        IF k = id THEN record ELSE a[collection][k]]]

AdapterUpdate(a, collection, id, record) ==
  [a EXCEPT ![collection] =
     [k \in DOMAIN a[collection] |->
        IF k = id THEN record ELSE a[collection][k]]]

\* -------------------------------------------------- CustomerListReadModel
\* Every handler returns the adapter it leaves behind and the error it threw.
\* Variant: the new record starts inactive.
onCustomerCreatedEvent_inactive(a, event) ==
  IF AdapterHas(a, CUSTOMERS, event.customerId)
  THEN [adapter |-> a, err |-> AlreadyExistsError]
  ELSE [adapter |-> AdapterInsert(a, CUSTOMERS, event.customerId,
                      [name |-> event.name, email |-> event.email,
                       password |-> event.password, active |-> 0]),
        err |-> NoError]

\* Variant: only an active record counts as existing.
onCustomerCreatedEvent_activeOnly(a, event) ==
  IF /\ AdapterHas(a, CUSTOMERS, event.customerId)
     /\ AdapterGet(a, CUSTOMERS, event.customerId).active = 1
  THEN [adapter |-> a, err |-> AlreadyExistsError]
  ELSE [adapter |-> AdapterInsert(a, CUSTOMERS, event.customerId,
                      [name |-> event.name, email |-> event.email,
                       password |-> event.password, active |-> 1]),
        err |-> NoError]

onCustomerCreatedEvent(a, event) ==
  IF AdapterHas(a, CUSTOMERS, event.customerId)
  THEN [adapter |-> a, err |-> AlreadyExistsError]
  ELSE [adapter |-> AdapterInsert(a, CUSTOMERS, event.customerId,
                      [name |-> event.name, email |-> event.email,
                       password |-> event.password, active |-> 1]),
        err |-> NoError]

\* Variant: an update writes the record anew and so reactivates it.
onCustomerUpdatedEvent_reactivates(a, event) ==
  IF ~AdapterHas(a, CUSTOMERS, event.customerId)
  THEN [adapter |-> a, err |-> NotFoundError]
  ELSE LET customer == AdapterGet(a, CUSTOMERS, event.customerId)
       IN [adapter |-> AdapterUpdate(a, CUSTOMERS, event.customerId,
                         [customer EXCEPT !.name = event.name, !.active = 1]),
           err |-> NoError]

\* Variant: an update copies every field of the event into the record.
onCustomerUpdatedEvent_copiesAll(a, event) ==
  IF ~AdapterHas(a, CUSTOMERS, event.customerId)
  THEN [adapter |-> a, err |-> NotFoundError]
  ELSE LET customer == AdapterGet(a, CUSTOMERS, event.customerId)
       IN [adapter |-> AdapterUpdate(a, CUSTOMERS, event.customerId,
                         [customer EXCEPT !.name = event.name,
                                          !.email = event.email,
                                          !.password = event.password]),
           err |-> NoError]

\* Variant: an update of a missing record creates it.
onCustomerUpdatedEvent_upsert(a, event) ==
  IF ~AdapterHas(a, CUSTOMERS, event.customerId)
  THEN [adapter |-> AdapterInsert(a, CUSTOMERS, event.customerId,
                      [name |-> event.name, email |-> undefined,
                       password |-> undefined, active |-> 1]),
        err |-> NoError]
  ELSE LET customer == AdapterGet(a, CUSTOMERS, event.customerId)
       IN [adapter |-> AdapterUpdate(a, CUSTOMERS, event.customerId,
                         [customer EXCEPT !.name = event.name]),
           err |-> NoError]

onCustomerUpdatedEvent(a, event) ==
  IF ~AdapterHas(a, CUSTOMERS, event.customerId)
  THEN [adapter |-> a, err |-> NotFoundError]
  ELSE LET customer == AdapterGet(a, CUSTOMERS, event.customerId)
       IN [adapter |-> AdapterUpdate(a, CUSTOMERS, event.customerId,
                         [customer EXCEPT !.name = event.name]),
           err |-> NoError]

\* Variant: deactivation removes the record.
onCustomerDeactivatedEvent_delete(a, event) ==
  IF ~AdapterHas(a, CUSTOMERS, event.customerId)
  THEN [adapter |-> a, err |-> NotFoundError]
  ELSE [adapter |-> [a EXCEPT ![CUSTOMERS] =
                       [k \in (DOMAIN a[CUSTOMERS]) \ {event.customerId} |->
                          a[CUSTOMERS][k]]],
        err |-> NoError]

\* Variant: deactivation refuses a record that is already inactive.
onCustomerDeactivatedEvent_strict(a, event) ==
  IF \/ ~AdapterHas(a, CUSTOMERS, event.customerId)
     \/ AdapterGet(a, CUSTOMERS, event.customerId).active = 0
  THEN [adapter |-> a, err |-> NotFoundError]
  ELSE LET customer == AdapterGet(a, CUSTOMERS, event.customerId)
       IN [adapter |-> AdapterUpdate(a, CUSTOMERS, event.customerId,
                         [customer EXCEPT !.active = 0]),
           err |-> NoError]

\* Variant: deactivation flips the flag instead of setting it.
onCustomerDeactivatedEvent_toggle(a, event) ==
  IF ~AdapterHas(a, CUSTOMERS, event.customerId)
  THEN [adapter |-> a, err |-> NotFoundError]
  ELSE LET customer == AdapterGet(a, CUSTOMERS, event.customerId)
       IN [adapter |-> AdapterUpdate(a, CUSTOMERS, event.customerId,
                         [customer EXCEPT !.active = 1 - customer.active]),
           err |-> NoError]

onCustomerDeactivatedEvent(a, event) ==
  IF ~AdapterHas(a, CUSTOMERS, event.customerId)
  THEN [adapter |-> a, err |-> NotFoundError]
  ELSE LET customer == AdapterGet(a, CUSTOMERS, event.customerId)
       IN [adapter |-> AdapterUpdate(a, CUSTOMERS, event.customerId,
                         [customer EXCEPT !.active = 0]),
           err |-> NoError]

\* Variant: reactivation counts the flag up.
onCustomerReactivatedEvent_increment(a, event) ==
  IF ~AdapterHas(a, CUSTOMERS, event.customerId)
  THEN [adapter |-> a, err |-> NotFoundError]
  ELSE LET customer == AdapterGet(a, CUSTOMERS, event.customerId)
       IN [adapter |-> AdapterUpdate(a, CUSTOMERS, event.customerId,
                         [customer EXCEPT !.active = customer.active + 1]),
           err |-> NoError]

\* Variant: reactivation writes the flag of a deactivation.
onCustomerReactivatedEvent_setsZero(a, event) ==
  IF ~AdapterHas(a, CUSTOMERS, event.customerId)
  THEN [adapter |-> a, err |-> NotFoundError]
  ELSE LET customer == AdapterGet(a, CUSTOMERS, event.customerId)
       IN [adapter |-> AdapterUpdate(a, CUSTOMERS, event.customerId,
                         [customer EXCEPT !.active = 0]),
           err |-> NoError]

\* Variant: reactivation refuses a record that is already active.
onCustomerReactivatedEvent_strict(a, event) ==
  IF \/ ~AdapterHas(a, CUSTOMERS, event.customerId)
     \/ AdapterGet(a, CUSTOMERS, event.customerId).active = 1
  THEN [adapter |-> a, err |-> NotFoundError]
  ELSE LET customer == AdapterGet(a, CUSTOMERS, event.customerId)
       IN [adapter |-> AdapterUpdate(a, CUSTOMERS, event.customerId,
                         [customer EXCEPT !.active = 1]),
           err |-> NoError]

\* Variant: reactivation flips the flag instead of setting it.
onCustomerReactivatedEvent_toggle(a, event) ==
  IF ~AdapterHas(a, CUSTOMERS, event.customerId)
  THEN [adapter |-> a, err |-> NotFoundError]
  ELSE LET customer == AdapterGet(a, CUSTOMERS, event.customerId)
       IN [adapter |-> AdapterUpdate(a, CUSTOMERS, event.customerId,
                         [customer EXCEPT !.active = 1 - customer.active]),
           err |-> NoError]

onCustomerReactivatedEvent(a, event) ==
  IF ~AdapterHas(a, CUSTOMERS, event.customerId)
  THEN [adapter |-> a, err |-> NotFoundError]
  ELSE LET customer == AdapterGet(a, CUSTOMERS, event.customerId)
       IN [adapter |-> AdapterUpdate(a, CUSTOMERS, event.customerId,
                         [customer EXCEPT !.active = 1]),
           err |-> NoError]

\* Variant: an event of any other type is handled as a creation.
onEvent_defaultCreates(a, event) ==
  CASE event.__name = CUSTOMER_UPDATED -> onCustomerUpdatedEvent(a, event)
    [] event.__name = CUSTOMER_DEACTIVATED -> onCustomerDeactivatedEvent(a, event)
    [] event.__name = CUSTOMER_REACTIVATED -> onCustomerReactivatedEvent(a, event)
    [] OTHER -> onCustomerCreatedEvent(a, event)

\* Variant: the dispatcher catches what the handlers throw.
onEvent_swallow(a, event) ==
  LET r == CASE event.__name = CUSTOMER_CREATED -> onCustomerCreatedEvent(a, event)
             [] event.__name = CUSTOMER_UPDATED -> onCustomerUpdatedEvent(a, event)
             [] event.__name = CUSTOMER_DEACTIVATED -> onCustomerDeactivatedEvent(a, event)
             [] event.__name = CUSTOMER_REACTIVATED -> onCustomerReactivatedEvent(a, event)
             [] OTHER -> [adapter |-> a, err |-> NoError]
  IN [adapter |-> r.adapter, err |-> NoError]

onEvent(a, event) ==
  CASE event.__name = CUSTOMER_CREATED -> onCustomerCreatedEvent(a, event)
    [] event.__name = CUSTOMER_UPDATED -> onCustomerUpdatedEvent(a, event)
    [] event.__name = CUSTOMER_DEACTIVATED -> onCustomerDeactivatedEvent(a, event)
    [] event.__name = CUSTOMER_REACTIVATED -> onCustomerReactivatedEvent(a, event)
    [] OTHER -> [adapter |-> a, err |-> NoError]

\* repository.store.forEach(onEvent): the first throw ends the iteration.
RECURSIVE forEach(_, _, _)
forEach(i, st, a) ==
  IF i > Len(st)
  THEN [adapter |-> a, invoked |-> << >>, err |-> NoError]
  ELSE LET r == onEvent(a, st[i])
       IN IF r.err # NoError
          THEN [adapter |-> r.adapter, invoked |-> << st[i] >>, err |-> r.err]
          ELSE LET rest == forEach(i + 1, st, r.adapter)
               IN [adapter |-> rest.adapter,
                   invoked |-> << st[i] >> \o rest.invoked,
                   err |-> rest.err]

\* Variant: the factory replays the store but never registers on the bus.
CustomerListReadModel_noSubscribe(rm, order, st, a) ==
  LET replay == forEach(1, st, a)
  IN [subs |-> order, adapter |-> replay.adapter,
      invoked |-> replay.invoked, err |-> replay.err]

\* Variant: the factory registers on the bus and skips the replay.
CustomerListReadModel_noReplay(rm, order, st, a) ==
  [subs |-> Append(order, rm), adapter |-> a, invoked |-> << >>, err |-> NoError]

\* Variant: the factory replays first and registers on the bus afterwards,
\* which a throwing replay never reaches.
CustomerListReadModel_replayFirst(rm, order, st, a) ==
  LET replay == forEach(1, st, a)
  IN [subs |-> IF replay.err = NoError THEN Append(order, rm) ELSE order,
      adapter |-> replay.adapter,
      invoked |-> replay.invoked, err |-> replay.err]

\* The factory: bus.on('event', onEvent), then the replay of the store.
CustomerListReadModel(rm, order, st, a) ==
  LET replay == forEach(1, st, a)
  IN [subs |-> Append(order, rm), adapter |-> replay.adapter,
      invoked |-> replay.invoked, err |-> replay.err]

\* --------------------------------------------------------------- event bus
\* emit: the listeners run in registration order; a throwing listener ends
\* the emit and its error reaches the caller of emit.
RECURSIVE emitFrom(_, _, _, _)
emitFrom(i, order, ads, event) ==
  IF i > Len(order)
  THEN [adapters |-> ads, deliveries |-> << >>, err |-> NoError]
  ELSE LET r == onEvent(ads[order[i]], event)
           ads1 == [ads EXCEPT ![order[i]] = r.adapter]
       IN IF r.err # NoError
          THEN [adapters |-> ads1, deliveries |-> << order[i] >>, err |-> r.err]
          ELSE LET rest == emitFrom(i + 1, order, ads1, event)
               IN [adapters |-> rest.adapters,
                   deliveries |-> << order[i] >> \o rest.deliveries,
                   err |-> rest.err]

\* Variant: only the first listener is called.
emit_firstOnly(order, ads, event) ==
  emitFrom(1, IF Len(order) > 1 THEN << order[1] >> ELSE order, ads, event)

emit(order, ads, event) == emitFrom(1, order, ads, event)

\* ------------------------------------------------------------- event store
\* append: persist, then publish synchronously; a failing publish fails append.
append(st, order, ads, event) ==
  LET p == emit(order, ads, event)
  IN [store |-> Append(st, event), adapters |-> p.adapters,
      deliveries |-> p.deliveries, event |-> event,
      publishErr |-> p.err, appendErr |-> p.err, err |-> p.err]

\* ------------------------------------------------- commands, command handler
CREATE_CUSTOMER == "CREATE_CUSTOMER"
UPDATE_CUSTOMER == "UPDATE_CUSTOMER"
DEACTIVATE_CUSTOMER == "DEACTIVATE_CUSTOMER"
REACTIVATE_CUSTOMER == "REACTIVATE_CUSTOMER"

CreateCustomer(id, name, email, password) ==
  [type |-> CREATE_CUSTOMER, customerId |-> id, name |-> name,
   email |-> email, password |-> password]

UpdateCustomer(id, name) ==
  [type |-> UPDATE_CUSTOMER, customerId |-> id, name |-> name,
   email |-> undefined, password |-> undefined]

DeactivateCustomer(id) ==
  [type |-> DEACTIVATE_CUSTOMER, customerId |-> id, name |-> undefined,
   email |-> undefined, password |-> undefined]

ReactivateCustomer(id) ==
  [type |-> REACTIVATE_CUSTOMER, customerId |-> id, name |-> undefined,
   email |-> undefined, password |-> undefined]

Commands ==
  {CreateCustomer(id, n, e, p) : id \in Ids, n \in Names, e \in Emails, p \in Passwords}
  \cup {UpdateCustomer(id, n) : id \in Ids, n \in Names}
  \cup {DeactivateCustomer(id) : id \in Ids}
  \cup {ReactivateCustomer(id) : id \in Ids}

\* The aggregate exists when its history holds its creation event.
AggregateExists(st, id) ==
  \E i \in 1..Len(st) : st[i].__name = CUSTOMER_CREATED /\ st[i].customerId = id

Rejected(st, ads, error) ==
  [store |-> st, adapters |-> ads, deliveries |-> << >>, event |-> NoEvent,
   publishErr |-> NoError, appendErr |-> NoError, err |-> error]

\* Variant: a creation command is never checked against the aggregate.
handle_noCreateCheck(st, order, ads, cmd) ==
  CASE cmd.type = CREATE_CUSTOMER ->
         append(st, order, ads,
           CustomerCreated(cmd.customerId, cmd.name, cmd.email, cmd.password))
    [] cmd.type = UPDATE_CUSTOMER ->
         IF ~AggregateExists(st, cmd.customerId)
         THEN Rejected(st, ads, AggregateNotFoundError)
         ELSE append(st, order, ads, CustomerUpdated(cmd.customerId, cmd.name))
    [] cmd.type = DEACTIVATE_CUSTOMER ->
         IF ~AggregateExists(st, cmd.customerId)
         THEN Rejected(st, ads, AggregateNotFoundError)
         ELSE append(st, order, ads, CustomerDeactivated(cmd.customerId))
    [] cmd.type = REACTIVATE_CUSTOMER ->
         IF ~AggregateExists(st, cmd.customerId)
         THEN Rejected(st, ads, AggregateNotFoundError)
         ELSE append(st, order, ads, CustomerReactivated(cmd.customerId))

handle(st, order, ads, cmd) ==
  CASE cmd.type = CREATE_CUSTOMER ->
         IF AggregateExists(st, cmd.customerId)
         THEN Rejected(st, ads, CreateTwiceError)
         ELSE append(st, order, ads,
                CustomerCreated(cmd.customerId, cmd.name, cmd.email, cmd.password))
    [] cmd.type = UPDATE_CUSTOMER ->
         IF ~AggregateExists(st, cmd.customerId)
         THEN Rejected(st, ads, AggregateNotFoundError)
         ELSE append(st, order, ads, CustomerUpdated(cmd.customerId, cmd.name))
    [] cmd.type = DEACTIVATE_CUSTOMER ->
         IF ~AggregateExists(st, cmd.customerId)
         THEN Rejected(st, ads, AggregateNotFoundError)
         ELSE append(st, order, ads, CustomerDeactivated(cmd.customerId))
    [] cmd.type = REACTIVATE_CUSTOMER ->
         IF ~AggregateExists(st, cmd.customerId)
         THEN Rejected(st, ads, AggregateNotFoundError)
         ELSE append(st, order, ads, CustomerReactivated(cmd.customerId))

\* ------------------------------------------------------------------- state
VARIABLES
  store,      \* the event store: every appended event, in append order
  subs,       \* the bus listeners (read models), in registration order
  adapters,   \* the persistence adapter of every read model
  builtAt,    \* per read model: store length when it was constructed, -1 = not yet
  invoked,    \* every call of a read model's onEvent: [rm, event, via]
  hist,       \* every handled command: [cmd, err, appended, delivered]
  last,       \* the latest publish: event, errors seen at each level
  once,       \* the projection as it was right after the rebuild
  redoFrom,   \* first store position of the re-delivered tail, 0 = none yet
  redoPos,    \* next store position to re-deliver
  redoErrs,   \* the errors the re-delivery raised, one entry per event
  ctorErr     \* per read model: the error that escaped its constructor

vars == <<store, subs, adapters, builtAt, invoked, hist, last, once, redoFrom, redoPos,
          redoErrs, ctorErr>>

Range(s) == {s[i] : i \in 1..Len(s)}

Tag(rms, event, via) ==
  [i \in 1..Len(rms) |-> [rm |-> rms[i], event |-> event, via |-> via]]

TagEvents(rm, evs, via) ==
  [i \in 1..Len(evs) |-> [rm |-> rm, event |-> evs[i], via |-> via]]

NoLast ==
  [src |-> "none", event |-> NoEvent,
   publishErr |-> NoError, appendErr |-> NoError, handleErr |-> NoError]

Init ==
  /\ store = << >>
  /\ subs = << >>
  /\ adapters = [rm \in ReadModels |-> EmptyAdapter]
  /\ builtAt = [rm \in ReadModels |-> -1]
  /\ invoked = << >>
  /\ hist = << >>
  /\ last = NoLast
  /\ once = EmptyAdapter
  /\ redoFrom = 0
  /\ redoPos = 0
  /\ redoErrs = << >>
  /\ ctorErr = [rm \in ReadModels |-> NoError]

\* ----------------------------------------------------- the running system
\* A read model is constructed on its own adapter.
Construct(rm) ==
  /\ builtAt[rm] = -1
  /\ LET c == CustomerListReadModel(rm, subs, store, adapters[rm])
     IN /\ subs' = c.subs
        /\ adapters' = [adapters EXCEPT ![rm] = c.adapter]
        /\ invoked' = invoked \o TagEvents(rm, c.invoked, "replay")
        /\ ctorErr' = [ctorErr EXCEPT ![rm] = c.err]
  /\ builtAt' = [builtAt EXCEPT ![rm] = Len(store)]
  /\ UNCHANGED <<store, hist, last, once, redoFrom, redoPos, redoErrs>>

Handle(cmd) ==
  /\ Len(hist) < MaxCmds
  /\ LET h == handle(store, subs, adapters, cmd)
     IN /\ store' = h.store
        /\ adapters' = h.adapters
        /\ invoked' = invoked \o Tag(h.deliveries, h.event, "live")
        /\ hist' = Append(hist, [cmd |-> cmd, err |-> h.err,
                                 appended |-> Len(h.store) - Len(store),
                                 delivered |-> Len(h.deliveries)])
  /\ UNCHANGED <<subs, builtAt, last, once, redoFrom, redoPos, redoErrs, ctorErr>>

Next ==
  \/ \E rm \in ReadModels : Construct(rm)
  \/ \E cmd \in Commands : Handle(cmd)

Spec == Init /\ [][Next]_vars

\* ------------------------------------------- one read model, any event
\* The read model rmA has been constructed over the empty store.  Anything
\* holding the bus may emit on it, so the projection meets every event in
\* every state; commands keep arriving through the command handler.
InitHandler ==
  /\ store = << >>
  /\ subs = << "rmA" >>
  /\ adapters = [rm \in ReadModels |-> EmptyAdapter]
  /\ builtAt = [rm \in ReadModels |-> IF rm = "rmA" THEN 0 ELSE -1]
  /\ invoked = << >>
  /\ hist = << >>
  /\ last = NoLast
  /\ once = EmptyAdapter
  /\ redoFrom = 0
  /\ redoPos = 0
  /\ redoErrs = << >>
  /\ ctorErr = [rm \in ReadModels |-> NoError]

EmitDirect(event) ==
  /\ LET p == emit(subs, adapters, event)
     IN /\ adapters' = p.adapters
        /\ last' = [src |-> "emit", event |-> event, publishErr |-> p.err,
                    appendErr |-> NoError, handleErr |-> NoError]
  /\ UNCHANGED <<store, subs, builtAt, invoked, hist, once, redoFrom, redoPos, redoErrs, ctorErr>>

HandleDiverged(cmd) ==
  /\ Len(store) < MaxDivergedStore
  /\ LET h == handle(store, subs, adapters, cmd)
     IN /\ store' = h.store
        /\ adapters' = h.adapters
        /\ last' = [src |-> "handle", event |-> h.event, publishErr |-> h.publishErr,
                    appendErr |-> h.appendErr, handleErr |-> h.err]
  /\ UNCHANGED <<subs, builtAt, invoked, hist, once, redoFrom, redoPos, redoErrs, ctorErr>>

NextHandler ==
  \/ \E event \in Events : EmitDirect(event)
  \/ \E cmd \in Commands : HandleDiverged(cmd)

SpecHandler == InitHandler /\ [][NextHandler]_vars

\* ------------------------------------- rebuild, then the same events again
\* Commands commit a history while no read model exists; read model rmA is
\* then constructed (subscribe, replay); afterwards the events of the store
\* from some position on are emitted on the bus once more, one emit each.
Commit(cmd) ==
  /\ builtAt["rmA"] = -1
  /\ Len(store) < MaxStore
  /\ LET h == handle(store, subs, adapters, cmd)
     IN /\ h.err = NoError
        /\ store' = h.store
  /\ UNCHANGED <<subs, adapters, builtAt, invoked, hist, last, once,
                 redoFrom, redoPos, redoErrs, ctorErr>>

Rebuild ==
  /\ builtAt["rmA"] = -1
  /\ Len(store) >= 1
  /\ LET c == CustomerListReadModel("rmA", subs, store, adapters["rmA"])
     IN /\ subs' = c.subs
        /\ adapters' = [adapters EXCEPT !["rmA"] = c.adapter]
        /\ once' = c.adapter
        /\ ctorErr' = [ctorErr EXCEPT !["rmA"] = c.err]
  /\ builtAt' = [builtAt EXCEPT !["rmA"] = Len(store)]
  /\ UNCHANGED <<store, invoked, hist, last, redoFrom, redoPos, redoErrs>>

StartRedelivery(k) ==
  /\ builtAt["rmA"] >= 0
  /\ redoFrom = 0
  /\ redoFrom' = k
  /\ redoPos' = k
  /\ UNCHANGED <<store, subs, adapters, builtAt, invoked, hist, last, once, redoErrs, ctorErr>>

Redeliver ==
  /\ redoFrom > 0
  /\ redoPos <= Len(store)
  /\ LET p == emit(subs, adapters, store[redoPos])
     IN /\ adapters' = p.adapters
        /\ redoErrs' = Append(redoErrs, p.err)
  /\ redoPos' = redoPos + 1
  /\ UNCHANGED <<store, subs, builtAt, invoked, hist, last, once, redoFrom, ctorErr>>

NextRedeliver ==
  \/ \E cmd \in Commands : Commit(cmd)
  \/ Rebuild
  \/ \E k \in 1..Len(store) : StartRedelivery(k)
  \/ Redeliver

SpecRedeliver == Init /\ [][NextRedeliver]_vars

\* ----------------------------------- construction on an adapter with data
\* The adapter handed to the factory is the caller's: here it may already
\* hold customer records when read model rmA is constructed over a
\* committed history; commands keep arriving afterwards.
PreloadedRecord == [name |-> "n1", email |-> "e1", password |-> "p1", active |-> 1]

PreloadedAdapters ==
  {[c \in {CUSTOMERS} |-> [id \in S |-> PreloadedRecord]] : S \in (SUBSET Ids) \ {{}}}

InitPreloaded ==
  /\ store = << >>
  /\ subs = << >>
  /\ adapters \in {[rm \in ReadModels |-> IF rm = "rmA" THEN a ELSE EmptyAdapter] :
                     a \in PreloadedAdapters}
  /\ builtAt = [rm \in ReadModels |-> -1]
  /\ invoked = << >>
  /\ hist = << >>
  /\ last = NoLast
  /\ once = EmptyAdapter
  /\ redoFrom = 0
  /\ redoPos = 0
  /\ redoErrs = << >>
  /\ ctorErr = [rm \in ReadModels |-> NoError]

ConstructPreloaded == Construct("rmA")

\* A command the aggregate accepts, handled after the construction.
LiveAfter(cmd) ==
  /\ builtAt["rmA"] >= 0
  /\ Len(hist) < MaxLive
  /\ handle(store, subs, adapters, cmd).event # NoEvent
  /\ Handle(cmd)

NextPreloaded ==
  \/ \E cmd \in Commands : Commit(cmd)
  \/ ConstructPreloaded
  \/ \E cmd \in Commands : LiveAfter(cmd)

SpecPreloaded == InitPreloaded /\ [][NextPreloaded]_vars

\* ======================================================== properties
Customers(rm) == adapters[rm][CUSTOMERS]

\* C1: a CUSTOMER_CREATED event for an id that already has a record (whatever
\* its name or active flag) fails with 'Customer already exists' and leaves
\* the projection unchanged; for an id without a record it inserts exactly
\* one record with name, email and password of the event and active = 1.
C1_CreatedInsertsOrFails ==
  [][ last'.event.__name = CUSTOMER_CREATED =>
        LET id == last'.event.customerId
            before == adapters["rmA"][CUSTOMERS]
            after == adapters'["rmA"][CUSTOMERS]
        IN IF id \in DOMAIN before
           THEN /\ last'.publishErr = AlreadyExistsError
                /\ adapters' = adapters
           ELSE /\ last'.publishErr = NoError
                /\ DOMAIN after = (DOMAIN before) \cup {id}
                /\ after[id] = [name |-> last'.event.name,
                                email |-> last'.event.email,
                                password |-> last'.event.password,
                                active |-> 1]
                /\ \A k \in DOMAIN before : after[k] = before[k]
    ]_vars

\* A creation event was just refused for a record that is inactive and
\* carries another name than the event.
C1_Witness ==
  /\ last.event.__name = CUSTOMER_CREATED
  /\ last.publishErr = AlreadyExistsError
  /\ last.event.customerId \in DOMAIN Customers("rmA")
  /\ Customers("rmA")[last.event.customerId].active = 0
  /\ Customers("rmA")[last.event.customerId].name # last.event.name

\* C2: an update, deactivation or reactivation event for an id without a
\* record fails with 'Customer not found'; afterwards the id still has no
\* record and every other record is unchanged.
C2_MissingIdFails ==
  [][ ( /\ last'.event.__name \in
             {CUSTOMER_UPDATED, CUSTOMER_DEACTIVATED, CUSTOMER_REACTIVATED}
        /\ last'.event.customerId \notin DOMAIN adapters["rmA"][CUSTOMERS] ) =>
        /\ last'.publishErr = NotFoundError
        /\ last'.event.customerId \notin DOMAIN adapters'["rmA"][CUSTOMERS]
        /\ adapters' = adapters
    ]_vars

\* An update was just refused for a missing id while another id has a record.
C2_Witness ==
  /\ last.event.__name = CUSTOMER_UPDATED
  /\ last.publishErr = NotFoundError
  /\ last.event.customerId \notin DOMAIN Customers("rmA")
  /\ DOMAIN Customers("rmA") # {}

\* What the per-event-type handler of the event throws on adapter a.
HandlerError(a, event) ==
  IF event.__name = CUSTOMER_CREATED THEN onCustomerCreatedEvent(a, event).err
  ELSE IF event.__name = CUSTOMER_UPDATED THEN onCustomerUpdatedEvent(a, event).err
  ELSE IF event.__name = CUSTOMER_DEACTIVATED THEN onCustomerDeactivatedEvent(a, event).err
  ELSE IF event.__name = CUSTOMER_REACTIVATED THEN onCustomerReactivatedEvent(a, event).err
  ELSE NoError

\* C10: no projection failure is swallowed: what a per-event-type handler
\* throws leaves onEvent and reaches the publisher, and when the publisher
\* is the store's append, append and the caller of handle fail with it.
C10_FailurePropagates ==
  [][ last'.event # NoEvent =>
        LET thrown == HandlerError(adapters["rmA"], last'.event)
        IN thrown # NoError =>
             /\ last'.publishErr = thrown
             /\ last'.src = "handle" =>
                  (last'.appendErr = thrown /\ last'.handleErr = thrown)
    ]_vars

\* A command was accepted by the aggregate, its event was refused by the
\* projection, and the caller of handle got that refusal.
C10_Witness ==
  /\ last.src = "handle"
  /\ last.event.__name = CUSTOMER_CREATED
  /\ last.handleErr = AlreadyExistsError

\* The events a read model's onEvent was called with, in call order.
InvokedOn(rm) == SelectSeq(invoked, LAMBDA d : d.rm = rm)

EventsOf(log) == [i \in 1..Len(log) |-> log[i].event]

Built == {rm \in ReadModels : builtAt[rm] >= 0}

\* C5: subscribing first and replaying second loses no event and applies
\* none twice: a read model constructed when the store held H is called
\* once per event of H (the replay) and then once per event appended
\* later (live), in store append order.
C5_OncePerEventInStoreOrder ==
  \A rm \in Built :
    LET log == InvokedOn(rm)
    IN /\ EventsOf(log) = store
       /\ \A i \in 1..Len(log) :
            log[i].via = IF i <= builtAt[rm] THEN "replay" ELSE "live"

\* A read model was constructed over a non-empty store and has since seen
\* a later event live.
C5_Witness ==
  \E rm \in Built :
    /\ builtAt[rm] >= 1
    /\ Len(store) > builtAt[rm]
    /\ Len(InvokedOn(rm)) = Len(store)

\* C6: a read model rebuilt by replay after a history was committed holds
\* exactly the projection of a read model that was subscribed before any
\* event and received that history live.
C6_RebuildEqualsLive ==
  \A r1, r2 \in Built :
    (builtAt[r1] = 0 /\ builtAt[r2] > 0) => adapters[r2] = adapters[r1]

\* One read model saw the whole store live, the other was rebuilt from it,
\* and the projection holds an inactive customer.
C6_Witness ==
  \E r1, r2 \in Built :
    /\ builtAt[r1] = 0
    /\ builtAt[r2] = Len(store)
    /\ Len(store) >= 2
    /\ \E id \in DOMAIN Customers(r2) : Customers(r2)[id].active = 0

CreatedCount(id) ==
  Cardinality({i \in 1..Len(store) :
                 store[i].__name = CUSTOMER_CREATED /\ store[i].customerId = id})

IsCreate(j, id) ==
  hist[j].cmd.type = CREATE_CUSTOMER /\ hist[j].cmd.customerId = id

\* C7: of the create commands for one customer id the first succeeds and
\* every later one fails with 'can not create same customer more than
\* once' and appends no event, so the store holds exactly one
\* CUSTOMER_CREATED event for that id.
C7_CreateTwiceRejected ==
  \A id \in Ids :
    /\ \A j \in 1..Len(hist) :
         IsCreate(j, id) =>
           IF \E i \in 1..(j - 1) : IsCreate(i, id)
           THEN hist[j].err = CreateTwiceError /\ hist[j].appended = 0
           ELSE hist[j].err = NoError /\ hist[j].appended = 1
    /\ (\E j \in 1..Len(hist) : IsCreate(j, id)) => CreatedCount(id) = 1

\* The same create command was handled twice in a row.
C7_Witness ==
  \E j \in 2..Len(hist) :
    /\ hist[j].cmd.type = CREATE_CUSTOMER
    /\ hist[j - 1].cmd = hist[j].cmd
    /\ hist[j - 1].err = NoError
    /\ hist[j].err = CreateTwiceError

\* The latest two commands are a successful create and its rejected repeat.
CreateThenRepeat ==
  /\ Len(hist) >= 2
  /\ hist[Len(hist)].cmd.type = CREATE_CUSTOMER
  /\ hist[Len(hist) - 1].cmd = hist[Len(hist)].cmd
  /\ hist[Len(hist) - 1].err = NoError
  /\ hist[Len(hist)].err = CreateTwiceError

\* C8: after a successful create for id C with name N and a rejected
\* identical create, a subscribed read model holds one record for C, active
\* and named N; the rejected command delivered nothing to the read model,
\* whose creation handler ran once for C and never failed.
C8_OneActiveRecordAfterRepeat ==
  CreateThenRepeat =>
    LET cmd == hist[Len(hist)].cmd
    IN /\ hist[Len(hist)].delivered = 0
       /\ \A rm \in Range(subs) :
            /\ cmd.customerId \in DOMAIN Customers(rm)
            /\ Customers(rm)[cmd.customerId].name = cmd.name
            /\ Customers(rm)[cmd.customerId].active = 1
            /\ Len(SelectSeq(InvokedOn(rm),
                     LAMBDA d : /\ d.event.__name = CUSTOMER_CREATED
                                /\ d.event.customerId = cmd.customerId)) = 1

\* The repeat was rejected while a read model subscribed from the start
\* was listening.
C8_Witness ==
  /\ CreateThenRepeat
  /\ \E rm \in Range(subs) : builtAt[rm] = 0

\* C9: every event a command appends is delivered to all registered read
\* models, in registration order, within the handling of the command: the
\* calls of onEvent a command adds are exactly one per registered read
\* model per appended event, in registration order.
C9_DeliveredBeforeHandleReturns ==
  [][ Len(hist') > Len(hist) =>
        LET new == SubSeq(invoked', Len(invoked) + 1, Len(invoked'))
        IN IF Len(store') = Len(store)
           THEN new = << >>
           ELSE /\ Len(store') = Len(store) + 1
                /\ new = Tag(subs, store'[Len(store')], "live")
    ]_vars

\* The latest event went to two registered read models, rmB first.
C9_Witness ==
  /\ subs = << "rmB", "rmA" >>
  /\ Len(store) >= 1
  /\ Len(invoked) >= 2
  /\ invoked[Len(invoked) - 1] = [rm |-> "rmB", event |-> store[Len(store)], via |-> "live"]
  /\ invoked[Len(invoked)] = [rm |-> "rmA", event |-> store[Len(store)], via |-> "live"]

RedeliveryDone == redoFrom > 0 /\ redoPos = Len(store) + 1

\* C3: a projection rebuilt by replaying a non-empty valid history and then
\* given every event of that history again through the bus ends in the
\* projection it had after the rebuild.
C3_FullRedeliverySameState ==
  (RedeliveryDone /\ redoFrom = 1) => adapters["rmA"] = once

\* A history of three events or more, leaving an inactive customer, was
\* delivered a second time in full, the repeated creation being refused.
C3_Witness ==
  /\ RedeliveryDone
  /\ redoFrom = 1
  /\ Len(store) >= 3
  /\ \E id \in DOMAIN Customers("rmA") : Customers("rmA")[id].active = 0
  /\ \E i \in 1..Len(redoErrs) : redoErrs[i] = AlreadyExistsError

\* C4 as stated: re-delivering any suffix of an applied valid history raises
\* no error and leaves the projection as it was after the history.
C4_AsStated ==
  RedeliveryDone =>
    /\ \A i \in 1..Len(redoErrs) : redoErrs[i] = NoError
    /\ adapters["rmA"] = once

\* C4 amended: re-delivering any suffix of an applied valid history leaves
\* the projection as it was after the history; every re-delivered
\* CUSTOMER_CREATED event raises 'Customer already exists' and every other
\* re-delivered event raises nothing.
C4_SuffixRedelivery ==
  RedeliveryDone =>
    /\ adapters["rmA"] = once
    /\ Len(redoErrs) = Len(store) - redoFrom + 1
    /\ \A i \in 1..Len(redoErrs) :
         redoErrs[i] = IF store[redoFrom + i - 1].__name = CUSTOMER_CREATED
                       THEN AlreadyExistsError
                       ELSE NoError

\* A proper suffix of two events, a reactivation among them, was delivered
\* again without error.
C4_Witness ==
  /\ RedeliveryDone
  /\ redoFrom >= 2
  /\ Len(redoErrs) >= 2
  /\ \A i \in 1..Len(redoErrs) : redoErrs[i] = NoError
  /\ \E i \in redoFrom..Len(store) : store[i].__name = CUSTOMER_REACTIVATED

\* The event types the read model dispatches on.
Recognized ==
  {CUSTOMER_CREATED, CUSTOMER_UPDATED, CUSTOMER_DEACTIVATED, CUSTOMER_REACTIVATED}

\* C11: a CUSTOMER_UPDATED event for an id that has a record succeeds, sets
\* the record's name to the event's name and leaves its email, password and
\* active flag as they were (an inactive customer stays inactive).
C11_UpdateSetsNameOnly ==
  [][ ( /\ last'.event.__name = CUSTOMER_UPDATED
        /\ last'.event.customerId \in DOMAIN adapters["rmA"][CUSTOMERS] ) =>
        LET id == last'.event.customerId
            before == adapters["rmA"][CUSTOMERS][id]
            after == adapters'["rmA"][CUSTOMERS]
        IN /\ last'.publishErr = NoError
           /\ id \in DOMAIN after
           /\ after[id] = [name |-> last'.event.name, email |-> before.email,
                           password |-> before.password, active |-> before.active]
    ]_vars

\* An inactive customer was just renamed.
C11_Witness ==
  /\ last.event.__name = CUSTOMER_UPDATED
  /\ last.publishErr = NoError
  /\ last.event.customerId \in DOMAIN Customers("rmA")
  /\ Customers("rmA")[last.event.customerId].active = 0
  /\ Customers("rmA")[last.event.customerId].name = last.event.name
  /\ Customers("rmA")[last.event.customerId].email \in Emails

\* C12: a CUSTOMER_DEACTIVATED event for an id that has a record succeeds
\* and leaves the record's active flag at 0, whatever it was before.
C12_DeactivateSetsZero ==
  [][ ( /\ last'.event.__name = CUSTOMER_DEACTIVATED
        /\ last'.event.customerId \in DOMAIN adapters["rmA"][CUSTOMERS] ) =>
        /\ last'.publishErr = NoError
        /\ last'.event.customerId \in DOMAIN adapters'["rmA"][CUSTOMERS]
        /\ adapters'["rmA"][CUSTOMERS][last'.event.customerId].active = 0
    ]_vars

\* A deactivation was just applied while the other customer stays active.
C12_Witness ==
  /\ last.event.__name = CUSTOMER_DEACTIVATED
  /\ last.publishErr = NoError
  /\ last.event.customerId \in DOMAIN Customers("rmA")
  /\ Customers("rmA")[last.event.customerId].active = 0
  /\ \E id \in DOMAIN Customers("rmA") : Customers("rmA")[id].active = 1

\* C13: a CUSTOMER_REACTIVATED event for an id that has a record succeeds
\* and leaves the record's active flag at 1, whatever it was before.
C13_ReactivateSetsOne ==
  [][ ( /\ last'.event.__name = CUSTOMER_REACTIVATED
        /\ last'.event.customerId \in DOMAIN adapters["rmA"][CUSTOMERS] ) =>
        /\ last'.publishErr = NoError
        /\ last'.event.customerId \in DOMAIN adapters'["rmA"][CUSTOMERS]
        /\ adapters'["rmA"][CUSTOMERS][last'.event.customerId].active = 1
    ]_vars

\* A reactivation was just applied while the other customer is inactive.
C13_Witness ==
  /\ last.event.__name = CUSTOMER_REACTIVATED
  /\ last.publishErr = NoError
  /\ last.event.customerId \in DOMAIN Customers("rmA")
  /\ Customers("rmA")[last.event.customerId].active = 1
  /\ \E id \in DOMAIN Customers("rmA") : Customers("rmA")[id].active = 0

\* C15: an event of any type other than the four customer list events is
\* ignored: handling it raises nothing and leaves the projection as it was,
\* whether or not its id has a record.
C15_UnknownEventIgnored ==
  [][ ( last'.event # NoEvent /\ last'.event.__name \notin Recognized ) =>
        /\ last'.publishErr = NoError
        /\ adapters' = adapters
    ]_vars

\* A registration event was just handled for an id without a record while
\* the projection holds another customer.
C15_Witness ==
  /\ last.event.__name = CUSTOMER_REGISTERED
  /\ last.publishErr = NoError
  /\ last.event.customerId \notin DOMAIN Customers("rmA")
  /\ DOMAIN Customers("rmA") # {}

\* C16: no handled event, successful or failing, removes a record, and an
\* id gains its record exactly in the step that applies a CUSTOMER_CREATED
\* event for it successfully (the projection starts empty).
C16_RecordsOnlyGrow ==
  [][ LET before == DOMAIN adapters["rmA"][CUSTOMERS]
          after == DOMAIN adapters'["rmA"][CUSTOMERS]
      IN /\ before \subseteq after
         /\ \A id \in Ids :
              (id \in after \ before) <=>
                ( /\ last'.event.__name = CUSTOMER_CREATED
                  /\ last'.event.customerId = id
                  /\ last'.publishErr = NoError
                  /\ id \notin before )
    ]_vars

\* A deactivation was applied and a failing event followed; both records
\* are still there.
C16_Witness ==
  /\ last.publishErr # NoError
  /\ DOMAIN Customers("rmA") = Ids
  /\ \E id \in Ids : Customers("rmA")[id].active = 0

\* C18: handling an event for id C leaves the record of every other id as
\* it was, and no event changes the email or the password of a record that
\* exists.
C18_OnlyOwnRecordTouched ==
  [][ LET before == adapters["rmA"][CUSTOMERS]
          after == adapters'["rmA"][CUSTOMERS]
      IN \A k \in DOMAIN before :
           /\ k \in DOMAIN after
           /\ after[k].email = before[k].email
           /\ after[k].password = before[k].password
           /\ (k # last'.event.customerId => after[k] = before[k])
    ]_vars

\* A customer was just renamed while the other customer has a record.
C18_Witness ==
  /\ last.event.__name = CUSTOMER_UPDATED
  /\ last.publishErr = NoError
  /\ DOMAIN Customers("rmA") = Ids
  /\ \E k \in Ids : k # last.event.customerId /\ Customers("rmA")[k].name # last.event.name

\* C19: the active flag of every record is 0 or 1, and the record a
\* CUSTOMER_CREATED event has just inserted is active.
C19_ActiveIsFlag ==
  /\ \A id \in DOMAIN Customers("rmA") : Customers("rmA")[id].active \in {0, 1}
  /\ ( last.event.__name = CUSTOMER_CREATED /\ last.publishErr = NoError ) =>
       /\ last.event.customerId \in DOMAIN Customers("rmA")
       /\ Customers("rmA")[last.event.customerId].active = 1

\* A record was just created while the other customer is inactive.
C19_Witness ==
  /\ last.event.__name = CUSTOMER_CREATED
  /\ last.publishErr = NoError
  /\ \E id \in DOMAIN Customers("rmA") : Customers("rmA")[id].active = 0

\* The flag the latest deactivation or reactivation of id in evs sets, 1
\* when evs holds neither.
LastFlag(evs, id) ==
  LET idx == {i \in 1..Len(evs) :
                /\ evs[i].customerId = id
                /\ evs[i].__name \in {CUSTOMER_DEACTIVATED, CUSTOMER_REACTIVATED}}
  IN IF idx = {} THEN 1
     ELSE LET m == CHOOSE i \in idx : \A j \in idx : j <= i
          IN IF evs[m].__name = CUSTOMER_REACTIVATED THEN 1 ELSE 0

\* C14: once the CUSTOMER_CREATED event of an id is applied, the updates,
\* deactivations and reactivations that follow for that id are applied
\* without a projection failure, and the record's active flag is the one
\* of the latest deactivation or reactivation (1 when there is none).
C14_FlagFollowsLastEvent ==
  /\ \A j \in 1..Len(hist) : hist[j].err \notin {AlreadyExistsError, NotFoundError}
  /\ \A rm \in Built : \A id \in Ids :
       AggregateExists(store, id) =>
         /\ id \in DOMAIN Customers(rm)
         /\ Customers(rm)[id].active = LastFlag(store, id)

\* Created, deactivated, reactivated: the customer is active again in a
\* read model that saw the three events live.
C14_Witness ==
  /\ Len(store) = 3
  /\ store[1].__name = CUSTOMER_CREATED
  /\ store[2] = CustomerDeactivated(store[1].customerId)
  /\ store[3] = CustomerReactivated(store[1].customerId)
  /\ \E rm \in Built :
       /\ builtAt[rm] = 0
       /\ Customers(rm)[store[1].customerId].active = 1
       /\ Len(InvokedOn(rm)) = 3

\* The adapter after the events evs, each applied whatever it throws.
RECURSIVE ApplyAll(_, _)
ApplyAll(a, evs) ==
  IF evs = << >> THEN a
  ELSE ApplyAll(onEvent(a, Head(evs)).adapter, Tail(evs))

\* What the k-th event of st throws after the k - 1 events before it.
ErrorAt(a, st, k) == onEvent(ApplyAll(a, SubSeq(st, 1, k - 1)), st[k]).err

\* Position of the first event of st that throws when st is applied to a,
\* 0 when none does.
FirstFailure(a, st) ==
  LET F == {k \in 1..Len(st) : ErrorAt(a, st, k) # NoError}
  IN IF F = {} THEN 0 ELSE CHOOSE k \in F : \A j \in F : k <= j

\* C17: when an event fails during the replay of the constructor, the
\* replay stops there: the handler was called for the events up to the
\* failing one and for none after it, the effects of the events before it
\* stay, the failure escapes the constructor, and the handler is on the
\* bus all the same, so each later event is applied live to the partly
\* rebuilt projection.
C17_ReplayStopsAtFailure ==
  [][ /\ ( builtAt["rmA"] = -1 /\ builtAt'["rmA"] >= 0 ) =>
           LET a0 == adapters["rmA"]
               k == FirstFailure(a0, store)
               calls == SubSeq(invoked', Len(invoked) + 1, Len(invoked'))
           IN IF k = 0
              THEN ctorErr'["rmA"] = NoError
              ELSE /\ ctorErr'["rmA"] = ErrorAt(a0, store, k)
                   /\ calls = TagEvents("rmA", SubSeq(store, 1, k), "replay")
                   /\ adapters'["rmA"] = ApplyAll(a0, SubSeq(store, 1, k - 1))
                   /\ subs' = Append(subs, "rmA")
      /\ ( /\ builtAt["rmA"] >= 0
           /\ ctorErr["rmA"] # NoError
           /\ Len(store') > Len(store) ) =>
           LET event == store'[Len(store')]
           IN /\ invoked' = Append(invoked, [rm |-> "rmA", event |-> event, via |-> "live"])
              /\ adapters'["rmA"] = onEvent(adapters["rmA"], event).adapter
    ]_vars

\* The replay applied one event, failed on the second and never reached the
\* third; a later event was then applied live without error.
C17_Witness ==
  /\ ctorErr["rmA"] # NoError
  /\ builtAt["rmA"] = 3
  /\ Len(SelectSeq(invoked, LAMBDA d : d.via = "replay")) = 2
  /\ Len(store) = 4
  /\ invoked[Len(invoked)] = [rm |-> "rmA", event |-> store[4], via |-> "live"]
  /\ hist[Len(hist)].err = NoError
  /\ store[1].customerId \in DOMAIN Customers("rmA")
  /\ store[3].__name = CUSTOMER_UPDATED
  /\ Customers("rmA")[store[3].customerId].name # store[3].name

====
